---- MODULE Spec2Model ----
(***************************************************************************)
(* Dev3 decision store (server/storage.ts, MemStorage) and the Express     *)
(* route handlers that drive it (server/routes.ts).                        *)
(*                                                                         *)
(* The specifications share the state and the operators that model the    *)
(* code:                                                                   *)
(*   Spec        the HTTP routes, interleaved.  A handler is an async      *)
(*               function: it runs synchronously up to each `await`, and   *)
(*               other handlers may run between its continuations.  A      *)
(*               storage method has no await inside, so its body runs when *)
(*               it is called.  The wall clock stands still.               *)
(*   SerialSpec  creation, submission and calculation, each handler run to *)
(*               its reply before the next request is taken, with the wall *)
(*               clock advancing.                                          *)
(*   CalcSpec    POST /consensus on a decision whose three models have     *)
(*               responded, for every combination of their votes and every *)
(*               order of submission.                                      *)
(*   StoreSpec   direct calls of the IStorage methods on one decision.     *)
(*   ListSpec    direct calls of the IStorage methods that create, update  *)
(*               and delete decisions, on several decisions.               *)
(* Spec and SerialSpec hold one decision at a time: a client creates the   *)
(* next one once the store is empty and no handler is suspended.           *)
(***************************************************************************)
EXTENDS Integers, Sequences, FiniteSets, TLC

VARIABLES decisions, aiResponses, consensuses, clock, known, inflight, sent

vars == <<decisions, aiResponses, consensuses, clock, known, inflight, sent>>

(***************************************************************************)
(* Bounds of the model.                                                    *)
(***************************************************************************)
\* decisions ever created
MaxDecisions == 1
\* largest value of the wall clock
MaxClock == 1
\* route handlers suspended at an await at the same time
MaxInflight == 1
\* decisions ever created in ListSpec
MaxListed == 2

(***************************************************************************)
(* shared/schema: the closed enums.                                        *)
(***************************************************************************)
AI_MODELS == <<"grok", "chatgpt", "claude">>

AI_MODEL_ROLES == [grok |-> "Grok", chatgpt |-> "ChatGPT", claude |-> "Claude"]

VOTES == {"approve", "reject", "abstain"}

DECISION_STATUSES == {"pending", "deliberating", "consensus_reached", "deadlock"}

\* an id no decision was ever created under
NoSuchId == 0

(***************************************************************************)
(* Helpers on Map<K, V> and arrays.                                        *)
(***************************************************************************)
EmptyMap == [k \in {} |-> 0]

MapSet(m, k, v) == [x \in DOMAIN m \cup {k} |-> IF x = k THEN v ELSE m[x]]

MapDelete(m, k) == [x \in DOMAIN m \ {k} |-> m[x]]

Range(s) == {s[i] : i \in 1..Len(s)}

ModelsOf(responses) == [i \in 1..Len(responses) |-> responses[i].model]

\* Array.prototype.findIndex, 1-based; 0 stands for -1
findIndex(responses, model) ==
    IF \E i \in 1..Len(responses) : responses[i].model = model
    THEN CHOOSE i \in 1..Len(responses) :
            /\ responses[i].model = model
            /\ \A j \in 1..(i - 1) : responses[j].model # model
    ELSE 0

\* Array.prototype.filter over a sequence
RECURSIVE Filter(_, _)
Filter(s, keep) ==
    IF s = <<>> THEN <<>>
    ELSE (IF Head(s) \in keep THEN <<Head(s)>> ELSE <<>>) \o Filter(Tail(s), keep)

(***************************************************************************)
(* randomUUID and new Date().toISOString().                                *)
(***************************************************************************)
ResponseIds(responses) == {responses[i].id : i \in 1..Len(responses)}

\* every id some part of the state still holds
UsedIds ==
    known
    \cup UNION {ResponseIds(aiResponses[d]) : d \in DOMAIN aiResponses}
    \cup {consensuses[d].id : d \in DOMAIN consensuses}
    \cup UNION {ResponseIds(inflight[h].val) : h \in DOMAIN inflight}

\* A collision-free identifier.  Which value a call returns is immaterial, so
\* the model fixes one: the least value nothing in the state holds, among the
\* values set aside for the call (`pool` numbers the calls' disjoint pools:
\* the decisions, and per decision its consensus and each model's response).
randomUUID(pool) ==
    LET Nth(j) == IF pool = 0 THEN j ELSE pool * 10 + j
    IN  Nth(CHOOSE j \in 1..(Cardinality(UsedIds) + 1) :
                /\ Nth(j) \notin UsedIds
                /\ \A i \in 1..(j - 1) : Nth(i) \in UsedIds)

DecisionPool == 0

ConsensusPool(decisionId) == (decisionId + 1) * 10

ResponsePool(decisionId, model) ==
    (decisionId + 1) * 10 + (CHOOSE i \in 1..Len(AI_MODELS) : AI_MODELS[i] = model)

(***************************************************************************)
(* MemStorage.                                                             *)
(***************************************************************************)
\* a createDecision that starts a decision as deliberating
createDeliberating(insertDecision, id, now) ==
    LET decision == [id |-> id,
                     title |-> insertDecision.title,
                     status |-> "deliberating",
                     createdAt |-> now,
                     updatedAt |-> now]
    IN  [decisions |-> MapSet(decisions, id, decision),
         aiResponses |-> MapSet(aiResponses, id, <<>>),
         ret |-> decision]

\* a createDecision that draws one id for the key and another for the record
createTwoIds(insertDecision, id, now) ==
    LET decision == [id |-> id + 1,
                     title |-> insertDecision.title,
                     status |-> "pending",
                     createdAt |-> now,
                     updatedAt |-> now]
    IN  [decisions |-> MapSet(decisions, id, decision),
         aiResponses |-> MapSet(aiResponses, id, <<>>),
         ret |-> decision]

createDecision(insertDecision, id, now) ==
    LET decision == [id |-> id,
                     title |-> insertDecision.title,
                     status |-> "pending",
                     createdAt |-> now,
                     updatedAt |-> now]
    IN  [decisions |-> MapSet(decisions, id, decision),
         aiResponses |-> MapSet(aiResponses, id, <<>>),
         ret |-> decision]

\* the `responses` and `consensus` a read attaches to a decision
Attached(id) ==
    [responses |-> IF id \in DOMAIN aiResponses THEN aiResponses[id] ELSE <<>>,
     consensus |-> IF id \in DOMAIN consensuses THEN <<consensuses[id]>> ELSE <<>>]

getDecision(id) ==
    IF id \notin DOMAIN decisions THEN <<>>
    ELSE <<[decision |-> decisions[id],
            responses |-> Attached(id).responses,
            consensus |-> Attached(id).consensus]>>

\* a spread written the other way round: { ...updates, ...decision, updatedAt }
SpreadReversed(decision, updates, now) ==
    [f \in DOMAIN decision |-> IF f = "updatedAt" THEN now ELSE decision[f]]

\* Array.from(map.entries()): the keys in insertion order, which is the
\* order of creation, in which randomUUID(DecisionPool) numbers the decisions
RECURSIVE entries(_)
entries(ids) ==
    IF ids = {} THEN <<>>
    ELSE LET first == CHOOSE i \in ids : \A j \in ids : i <= j
         IN  <<first>> \o entries(ids \ {first})

\* a comparator that sorts oldest first
byCreatedAtAscending(a, b) == a.decision.createdAt - b.decision.createdAt

\* (a, b) => new Date(b.createdAt).getTime() - new Date(a.createdAt).getTime()
byCreatedAtDescending(a, b) == b.decision.createdAt - a.decision.createdAt

\* Array.prototype.sort with that comparator: stable
RECURSIVE sort(_)
sort(list) ==
    IF list = <<>> THEN <<>>
    ELSE LET front == sort(SubSeq(list, 1, Len(list) - 1))
             last == list[Len(list)]
             k == Cardinality({i \in 1..Len(front) :
                                  byCreatedAtDescending(front[i], last) <= 0})
         IN  SubSeq(front, 1, k) \o <<last>> \o SubSeq(front, k + 1, Len(front))

getAllDecisions ==
    LET ids == entries(DOMAIN decisions)
    IN  sort([i \in 1..Len(ids) |-> getDecision(ids[i])[1]])

\* { ...decision, ...updates, updatedAt }
Spread(decision, updates, now) ==
    [f \in DOMAIN decision |->
        IF f = "updatedAt" THEN now
        ELSE IF f \in DOMAIN updates THEN updates[f]
        ELSE decision[f]]

updateDecision(id, updates, now) ==
    IF id \notin DOMAIN decisions
    THEN [decisions |-> decisions, ret |-> <<>>]
    ELSE LET updated == Spread(decisions[id], updates, now)
         IN  [decisions |-> MapSet(decisions, id, updated),
              ret |-> <<[decision |-> updated,
                         responses |-> Attached(id).responses,
                         consensus |-> Attached(id).consensus]>>]

\* a deleteDecision that drops the result of Map.delete
deleteReturnsTrue(id) ==
    [decisions |-> MapDelete(decisions, id),
     aiResponses |-> MapDelete(aiResponses, id),
     consensuses |-> MapDelete(consensuses, id),
     ret |-> TRUE]

\* a deleteDecision that clears the response lists: this.aiResponses.clear()
deleteAndClear(id) ==
    [decisions |-> MapDelete(decisions, id),
     aiResponses |-> EmptyMap,
     consensuses |-> MapDelete(consensuses, id),
     ret |-> id \in DOMAIN decisions]

deleteDecision(id) ==
    [decisions |-> MapDelete(decisions, id),
     aiResponses |-> MapDelete(aiResponses, id),
     consensuses |-> MapDelete(consensuses, id),
     ret |-> id \in DOMAIN decisions]

\* a store that appends every submission
PushAlways(responses, response) == Append(responses, response)

\* a store that overwrites the last response when the model has one
ReplaceLast(responses, response) ==
    IF findIndex(responses, response.model) >= 1
    THEN [responses EXCEPT ![Len(responses)] = response]
    ELSE Append(responses, response)

\* a store that removes a model's response and pushes the new one
RemoveThenPush(responses, response) ==
    LET others == {i \in 1..Len(responses) : responses[i].model # response.model}
        RECURSIVE keep(_)
        keep(i) == IF i > Len(responses) THEN <<>>
                   ELSE (IF i \in others THEN <<responses[i]>> ELSE <<>>) \o keep(i + 1)
    IN  Append(keep(1), response)

\* a store that starts the list over with every submission
StartOver(responses, response) == <<response>>

\* a store that keeps a model's first response
KeepExisting(responses, response) ==
    IF findIndex(responses, response.model) >= 1
    THEN responses
    ELSE Append(responses, response)

\* replace the response of the same model in place, or push
ReplaceOrPush(responses, response) ==
    LET existingIndex == findIndex(responses, response.model)
    IN  IF existingIndex >= 1
        THEN [responses EXCEPT ![existingIndex] = response]
        ELSE Append(responses, response)

\* a completeness test written with `some` for `every`
someResponded(responses) ==
    \E i \in 1..Len(AI_MODELS) :
        \E j \in 1..Len(responses) : responses[j].model = AI_MODELS[i]

allResponded(responses) ==
    \A i \in 1..Len(AI_MODELS) :
        \E j \in 1..Len(responses) : responses[j].model = AI_MODELS[i]

\* a status update that does not look at the status it replaces
AdvanceWhenComplete(decision, responses, now) ==
    IF allResponded(responses)
    THEN [decision EXCEPT !.status = "deliberating", !.updatedAt = now]
    ELSE decision

\* a status update that reopens a decision whose consensus was reached
AdvanceFromAny(decision, responses, now) ==
    IF allResponded(responses) /\ decision.status # "deliberating"
    THEN [decision EXCEPT !.status = "deliberating", !.updatedAt = now]
    ELSE decision

\* a status update on the first response instead of the last
AdvanceOnFirst(decision, responses, now) ==
    IF Len(responses) >= 1 /\ decision.status = "pending"
    THEN [decision EXCEPT !.status = "deliberating", !.updatedAt = now]
    ELSE decision

\* an addAIResponse without the status update of lines 212-223
NeverAdvance(decision, responses, now) == decision

\* a status update that refreshes updatedAt on every submission
AdvanceAndTouch(decision, responses, now) ==
    IF allResponded(responses) /\ decision.status = "pending"
    THEN [decision EXCEPT !.status = "deliberating", !.updatedAt = now]
    ELSE [decision EXCEPT !.updatedAt = now]

\* a status update that assigns the wrong member of the enum
AdvanceToDeadlock(decision, responses, now) ==
    IF allResponded(responses) /\ decision.status = "pending"
    THEN [decision EXCEPT !.status = "deadlock", !.updatedAt = now]
    ELSE decision

\* the stored decision after the status update of addAIResponse
AdvanceStatus(decision, responses, now) ==
    IF allResponded(responses) /\ decision.status = "pending"
    THEN [decision EXCEPT !.status = "deliberating", !.updatedAt = now]
    ELSE decision

addAIResponse(insertResponse, id, now, later) ==
    LET response == [id |-> id,
                     decisionId |-> insertResponse.decisionId,
                     model |-> insertResponse.model,
                     vote |-> insertResponse.vote,
                     reasoning |-> insertResponse.reasoning,
                     confidence |-> insertResponse.confidence,
                     recommendations |-> insertResponse.recommendations,
                     createdAt |-> now]
        d == insertResponse.decisionId
        old == IF d \in DOMAIN aiResponses THEN aiResponses[d] ELSE <<>>
        responses == ReplaceOrPush(old, response)
    IN  [aiResponses |-> MapSet(aiResponses, d, responses),
         decisions |-> IF d \in DOMAIN decisions
                       THEN MapSet(decisions, d,
                                   AdvanceStatus(decisions[d], responses, later))
                       ELSE decisions,
         ret |-> response]

getAIResponses(decisionId) ==
    IF decisionId \in DOMAIN aiResponses THEN aiResponses[decisionId] ELSE <<>>

getConsensus(decisionId) ==
    IF decisionId \in DOMAIN consensuses THEN <<consensuses[decisionId]>> ELSE <<>>

\* a setConsensus that keeps a consensus already on file
setConsensusOnce(decisionId, consensusData, id, now, later) ==
    IF decisionId \notin DOMAIN decisions \/ decisionId \in DOMAIN consensuses
    THEN [consensuses |-> consensuses, decisions |-> decisions,
          ret |-> getConsensus(decisionId)]
    ELSE LET consensus == [id |-> id,
                           decisionId |-> decisionId,
                           outcome |-> consensusData.outcome,
                           unanimity |-> consensusData.unanimity,
                           voteSummary |-> consensusData.voteSummary,
                           synthesizedReasoning |-> consensusData.synthesizedReasoning,
                           actionItems |-> consensusData.actionItems,
                           createdAt |-> now]
         IN  [consensuses |-> MapSet(consensuses, decisionId, consensus),
              decisions |-> MapSet(decisions, decisionId,
                                   [decisions[decisionId] EXCEPT
                                       !.status = "consensus_reached",
                                       !.updatedAt = later]),
              ret |-> <<consensus>>]

\* a setConsensus that looks for the decision after it stored the record
setConsensusUnchecked(decisionId, consensusData, id, now, later) ==
    LET consensus == [id |-> id,
                      decisionId |-> decisionId,
                      outcome |-> consensusData.outcome,
                      unanimity |-> consensusData.unanimity,
                      voteSummary |-> consensusData.voteSummary,
                      synthesizedReasoning |-> consensusData.synthesizedReasoning,
                      actionItems |-> consensusData.actionItems,
                      createdAt |-> now]
    IN  [consensuses |-> MapSet(consensuses, decisionId, consensus),
         decisions |-> IF decisionId \notin DOMAIN decisions THEN decisions
                       ELSE MapSet(decisions, decisionId,
                                   [decisions[decisionId] EXCEPT
                                       !.status = "consensus_reached",
                                       !.updatedAt = later]),
         ret |-> IF decisionId \notin DOMAIN decisions THEN <<>> ELSE <<consensus>>]

\* a setConsensus that carries the action items of the record it replaces
setConsensusMerging(decisionId, consensusData, id, now, later) ==
    IF decisionId \notin DOMAIN decisions
    THEN [consensuses |-> consensuses, decisions |-> decisions, ret |-> <<>>]
    ELSE LET carried == IF decisionId \in DOMAIN consensuses
                        THEN consensuses[decisionId].actionItems.items
                        ELSE <<>>
             consensus == [id |-> id,
                           decisionId |-> decisionId,
                           outcome |-> consensusData.outcome,
                           unanimity |-> consensusData.unanimity,
                           voteSummary |-> consensusData.voteSummary,
                           synthesizedReasoning |-> consensusData.synthesizedReasoning,
                           actionItems |->
                               [present |-> TRUE,
                                items |-> carried \o consensusData.actionItems.items],
                           createdAt |-> now]
         IN  [consensuses |-> MapSet(consensuses, decisionId, consensus),
              decisions |-> MapSet(decisions, decisionId,
                                   [decisions[decisionId] EXCEPT
                                       !.status = "consensus_reached",
                                       !.updatedAt = later]),
              ret |-> <<consensus>>]

\* a setConsensus without the status update of lines 251-253
setConsensusKeepStatus(decisionId, consensusData, id, now, later) ==
    IF decisionId \notin DOMAIN decisions
    THEN [consensuses |-> consensuses, decisions |-> decisions, ret |-> <<>>]
    ELSE LET consensus == [id |-> id,
                           decisionId |-> decisionId,
                           outcome |-> consensusData.outcome,
                           unanimity |-> consensusData.unanimity,
                           voteSummary |-> consensusData.voteSummary,
                           synthesizedReasoning |-> consensusData.synthesizedReasoning,
                           actionItems |-> consensusData.actionItems,
                           createdAt |-> now]
         IN  [consensuses |-> MapSet(consensuses, decisionId, consensus),
              decisions |-> decisions,
              ret |-> <<consensus>>]

setConsensus(decisionId, consensusData, id, now, later) ==
    IF decisionId \notin DOMAIN decisions
    THEN [consensuses |-> consensuses, decisions |-> decisions, ret |-> <<>>]
    ELSE LET consensus == [id |-> id,
                           decisionId |-> decisionId,
                           outcome |-> consensusData.outcome,
                           unanimity |-> consensusData.unanimity,
                           voteSummary |-> consensusData.voteSummary,
                           synthesizedReasoning |-> consensusData.synthesizedReasoning,
                           actionItems |-> consensusData.actionItems,
                           createdAt |-> now]
         IN  [consensuses |-> MapSet(consensuses, decisionId, consensus),
              decisions |-> MapSet(decisions, decisionId,
                                   [decisions[decisionId] EXCEPT
                                       !.status = "consensus_reached",
                                       !.updatedAt = later]),
              ret |-> <<consensus>>]

(***************************************************************************)
(* POST /api/decisions/:id/consensus: the calculation.                     *)
(***************************************************************************)
CountVote(responses, v) ==
    Cardinality({i \in 1..Len(responses) : responses[i].vote = v})

\* a tally whose reject filter was copied from the approve one
voteSummaryCopied(responses) ==
    [approve |-> CountVote(responses, "approve"),
     reject |-> CountVote(responses, "approve"),
     abstain |-> CountVote(responses, "abstain")]

\* a tally that stops one response short of the end
voteSummaryOffByOne(responses) ==
    LET counted == SubSeq(responses, 1, Len(responses) - 1)
    IN  [approve |-> CountVote(counted, "approve"),
         reject |-> CountVote(counted, "reject"),
         abstain |-> CountVote(counted, "abstain")]

voteSummary(responses) ==
    [approve |-> CountVote(responses, "approve"),
     reject |-> CountVote(responses, "reject"),
     abstain |-> CountVote(responses, "abstain")]

\* an outcome decided by plurality
outcomePlurality(summary) ==
    IF summary.approve > summary.reject THEN "approved"
    ELSE IF summary.reject > summary.approve THEN "rejected"
    ELSE "needs_revision"

outcome(summary) ==
    IF summary.approve >= 2 THEN "approved"
    ELSE IF summary.reject >= 2 THEN "rejected"
    ELSE "needs_revision"

\* a unanimity that is satisfied by a majority
unanimityOfMajority(summary) == summary.approve >= 2 \/ summary.reject >= 2

unanimity(summary) == summary.approve = 3 \/ summary.reject = 3

\* a template literal, as the list of its pieces
reasoningOf(r) ==
    <<AI_MODEL_ROLES[r.model], " (", r.vote, ", ", ToString(r.confidence),
      "% confidence): ", r.reasoning>>

\* Array.prototype.join over lists of pieces
RECURSIVE Join(_, _)
Join(parts, sep) ==
    IF parts = <<>> THEN <<>>
    ELSE IF Len(parts) = 1 THEN Head(parts)
    ELSE Head(parts) \o <<sep>> \o Join(Tail(parts), sep)

\* a narrative that goes through AI_MODELS instead of the responses
synthesizedInModelOrder(responses) ==
    Join([i \in 1..Len(AI_MODELS) |->
            reasoningOf(responses[findIndex(responses, AI_MODELS[i])])], "\n\n")

synthesizedReasoning(responses) ==
    Join([i \in 1..Len(responses) |-> reasoningOf(responses[i])], "\n\n")

\* responses.flatMap(r => r.recommendations || [])
RECURSIVE allActionItems(_)
allActionItems(responses) ==
    IF responses = <<>> THEN <<>>
    ELSE (IF Head(responses).recommendations.present
          THEN Head(responses).recommendations.items
          ELSE <<>>) \o allActionItems(Tail(responses))

\* a list passed on without the Set
noDedupe(items) == items

\* Array.from(new Set(items)): first occurrences, in insertion order
RECURSIVE uniqueActionItems(_)
uniqueActionItems(items) ==
    IF items = <<>> THEN <<>>
    ELSE LET front == uniqueActionItems(SubSeq(items, 1, Len(items) - 1))
             last == items[Len(items)]
         IN  IF last \in Range(front) THEN front ELSE Append(front, last)

Absent == [present |-> FALSE, items |-> <<>>]

Present(items) == [present |-> TRUE, items |-> items]

calculateConsensus(responses) ==
    LET summary == voteSummary(responses)
        unique == uniqueActionItems(allActionItems(responses))
    IN  [outcome |-> outcome(summary),
         unanimity |-> unanimity(summary),
         voteSummary |-> summary,
         synthesizedReasoning |-> synthesizedReasoning(responses),
         actionItems |-> IF Len(unique) > 0 THEN Present(unique) ELSE Absent]

\* the `responded` and `missing` lists of the 400 reply
respondedOf(responses) == ModelsOf(responses)

\* a filter that keeps the models found instead of those not found
missingInverted(responses) == Filter(AI_MODELS, Range(ModelsOf(responses)))

missingOf(responses) == Filter(AI_MODELS, Range(AI_MODELS) \ Range(ModelsOf(responses)))

(***************************************************************************)
(* Request bodies and their validation (shared/schema).                    *)
(***************************************************************************)
Body(model, vote, reasoning, confidence, recommendations) ==
    [model |-> model, vote |-> vote, reasoning |-> reasoning,
     confidence |-> confidence, recommendations |-> recommendations]

insertAIResponseSchemaOk(data) ==
    /\ data.model \in Range(AI_MODELS)
    /\ data.vote \in VOTES
    /\ data.confidence \in 0..100

updateDecisionSchemaOk(updates) ==
    /\ DOMAIN updates \subseteq {"title", "status"}
    /\ "status" \in DOMAIN updates => updates.status \in DECISION_STATUSES

\* what each vote comes with in the request bodies the model submits
BodyOf(model, vote) ==
    IF vote = "approve"
    THEN Body(model, vote, "ship it", 90, Present(<<"add tests", "add docs">>))
    ELSE IF vote = "reject"
    THEN Body(model, vote, "too risky", 70, Present(<<"add docs">>))
    ELSE Body(model, vote, "no opinion", 0, Absent)

\* bodies the schema rejects
InvalidBodies ==
    {Body("grok", "approve", "ship it", 101, Absent),
     Body("grok", "maybe", "unsure", 50, Absent)}

\* the request bodies of POST /responses in Spec: one vote per model
RequestBodies ==
    {BodyOf("grok", "approve"), BodyOf("chatgpt", "approve"), BodyOf("claude", "reject")}
    \cup InvalidBodies

\* ... and in SerialSpec: valid ones, grok voting either way
SerialBodies == (RequestBodies \ InvalidBodies) \cup {BodyOf("grok", "reject")}

\* the request bodies the model submits to PATCH /decisions/:id
RequestUpdates ==
    {[status |-> "deadlock"], [status |-> "archived"]}

\* the ids a client may put in a URL
Targets == known \cup {NoSuchId}

(***************************************************************************)
(* Replies and suspended handlers.                                         *)
(*                                                                         *)
(* `sent` is the reply sent by the latest step, NoReply when it sent none: *)
(* its route, the HTTP status, the decision the record in its body belongs *)
(* to (NoSuchId when the body is no record) and, for the 400 of            *)
(* POST /consensus, the two lists it reports.  A slot of `inflight` is a   *)
(* handler suspended at an await whose continuation reads or writes the    *)
(* store; a continuation that only sends the reply is part of the step     *)
(* before it.  The request body of POST /responses is first read by the    *)
(* continuation after getDecision, so it is chosen there.                  *)
(***************************************************************************)
NoReply ==
    [op |-> "none", id |-> NoSuchId, status |-> 0,
     responded |-> <<>>, missing |-> <<>>]

\* res.status(status) with an error body or none
Reply(op, status) == [NoReply EXCEPT !.op = op, !.status = status]

\* res.status(status).json(record), the record being of decision `id`
ReplyWith(op, status, id) == [Reply(op, status) EXCEPT !.id = id]

Idle == [kind |-> "idle", pc |-> "idle", id |-> NoSuchId, live |-> FALSE, val |-> <<>>]

Slots == 1..MaxInflight

\* a new request takes the first free slot
FreeSlot(h) ==
    /\ inflight[h] = Idle
    /\ \A g \in 1..(h - 1) : inflight[g] # Idle

\* the array a handler's `responses` refers to
ResponsesOf(h) ==
    IF inflight[h].live THEN aiResponses[inflight[h].id] ELSE inflight[h].val

\* deleting the map entry leaves the array to the handlers that already hold it
Detach(id) ==
    [h \in Slots |->
        IF inflight[h].live /\ inflight[h].id = id
        THEN [inflight[h] EXCEPT !.live = FALSE, !.val = aiResponses[id]]
        ELSE inflight[h]]

Init ==
    /\ decisions = EmptyMap
    /\ aiResponses = EmptyMap
    /\ consensuses = EmptyMap
    /\ clock = 0
    /\ known = {}
    /\ inflight = [h \in Slots |-> Idle]
    /\ sent = NoReply

Tick ==
    /\ clock < MaxClock
    /\ clock' = clock + 1
    /\ sent' = NoReply
    /\ UNCHANGED <<decisions, aiResponses, consensuses, known, inflight>>

(***************************************************************************)
(* The routes: what a handler does once its decision was found.            *)
(***************************************************************************)
\* POST /api/decisions/:id/responses from the parse of the body on
PostResponseOutcome(id, body, now, later) ==
    IF ~insertAIResponseSchemaOk(body)
    THEN [decisions |-> decisions, aiResponses |-> aiResponses,
          reply |-> Reply("postResponse", 400)]
    ELSE LET data == [decisionId |-> id,
                      model |-> body.model,
                      vote |-> body.vote,
                      reasoning |-> body.reasoning,
                      confidence |-> body.confidence,
                      recommendations |-> body.recommendations]
             r == addAIResponse(data, randomUUID(ResponsePool(id, body.model)),
                                now, later)
         IN  [decisions |-> r.decisions, aiResponses |-> r.aiResponses,
              reply |-> ReplyWith("postResponse", 201, id)]

\* POST /api/decisions/:id/consensus from the completeness check on
PostConsensusOutcome(id, responses, now, later) ==
    IF ~allResponded(responses)
    THEN [decisions |-> decisions, consensuses |-> consensuses,
          reply |-> [Reply("postConsensus", 400) EXCEPT
                        !.responded = respondedOf(responses),
                        !.missing = missingOf(responses)]]
    ELSE LET r == setConsensus(id, calculateConsensus(responses),
                               randomUUID(ConsensusPool(id)), now, later)
         IN  [decisions |-> r.decisions, consensuses |-> r.consensuses,
              reply |-> IF r.ret = <<>>
                        THEN Reply("postConsensus", 201)
                        ELSE ReplyWith("postConsensus", 201, id)]

(***************************************************************************)
(* The routes that reach no await before their storage call.               *)
(***************************************************************************)
\* POST /api/decisions
PostDecision ==
    /\ Cardinality(known) < MaxDecisions
    /\ decisions = EmptyMap
    /\ aiResponses = EmptyMap
    /\ \A h \in Slots : inflight[h] = Idle
    /\ LET r == createDecision([title |-> "proposal"], randomUUID(DecisionPool), clock)
       IN  /\ decisions' = r.decisions
           /\ aiResponses' = r.aiResponses
           /\ known' = known \cup {r.ret.id}
           /\ sent' = ReplyWith("postDecision", 201, r.ret.id)
    /\ UNCHANGED <<consensuses, clock, inflight>>

\* PATCH /api/decisions/:id
PatchDecision ==
    \E id \in Targets, updates \in RequestUpdates :
        /\ IF ~updateDecisionSchemaOk(updates)
           THEN /\ sent' = Reply("patchDecision", 400)
                /\ UNCHANGED decisions
           ELSE LET r == updateDecision(id, updates, clock)
                IN  /\ decisions' = r.decisions
                    /\ sent' = IF r.ret = <<>>
                               THEN Reply("patchDecision", 404)
                               ELSE ReplyWith("patchDecision", 200, id)
        /\ UNCHANGED <<aiResponses, consensuses, clock, known, inflight>>

\* DELETE /api/decisions/:id
DeleteDecisionOf(id) ==
    LET r == deleteDecision(id)
    IN  /\ inflight' = Detach(id)
        /\ decisions' = r.decisions
        /\ aiResponses' = r.aiResponses
        /\ consensuses' = r.consensuses
        /\ sent' = Reply("deleteDecision", IF r.ret THEN 204 ELSE 404)
        /\ UNCHANGED <<clock, known>>

DeleteDecision == \E id \in Targets : DeleteDecisionOf(id)

(***************************************************************************)
(* Spec: the two routes with awaits before their writes, step by step.     *)
(***************************************************************************)
\* POST /api/decisions/:id/responses, up to `await storage.getDecision`
PostResponseStart ==
    \E h \in Slots, id \in Targets :
        /\ FreeSlot(h)
        /\ IF getDecision(id) = <<>>
           THEN /\ sent' = Reply("postResponse", 404)
                /\ UNCHANGED inflight
           ELSE /\ inflight' = [inflight EXCEPT ![h] =
                                   [Idle EXCEPT !.kind = "postResponse",
                                                !.pc = "parse", !.id = id]]
                /\ sent' = NoReply
        /\ UNCHANGED <<decisions, aiResponses, consensuses, clock, known>>

\* ... from there to the reply
PostResponseFinishOf(h, body) ==
    /\ inflight[h].kind = "postResponse"
    /\ inflight[h].pc = "parse"
    /\ inflight' = [inflight EXCEPT ![h] = Idle]
    /\ LET r == PostResponseOutcome(inflight[h].id, body, clock, clock)
       IN  /\ aiResponses' = r.aiResponses
           /\ decisions' = r.decisions
           /\ sent' = r.reply
    /\ UNCHANGED <<consensuses, clock, known>>

PostResponseFinish ==
    \E h \in Slots, body \in RequestBodies : PostResponseFinishOf(h, body)

\* POST /api/decisions/:id/consensus, up to `await storage.getDecision`
PostConsensusStart ==
    \E h \in Slots, id \in Targets :
        /\ FreeSlot(h)
        /\ IF getDecision(id) = <<>>
           THEN /\ sent' = Reply("postConsensus", 404)
                /\ UNCHANGED inflight
           ELSE /\ inflight' = [inflight EXCEPT ![h] =
                                   [Idle EXCEPT !.kind = "postConsensus",
                                                !.pc = "responses", !.id = id]]
                /\ sent' = NoReply
        /\ UNCHANGED <<decisions, aiResponses, consensuses, clock, known>>

\* ... from there to `await storage.getAIResponses`
PostConsensusResponses ==
    \E h \in Slots :
        /\ inflight[h].kind = "postConsensus"
        /\ inflight[h].pc = "responses"
        /\ inflight' = [inflight EXCEPT ![h] =
                           [@ EXCEPT !.pc = "calc",
                                     !.live = inflight[h].id \in DOMAIN aiResponses,
                                     !.val = <<>>]]
        /\ sent' = NoReply
        /\ UNCHANGED <<decisions, aiResponses, consensuses, clock, known>>

\* ... from there to the reply
PostConsensusCalc ==
    \E h \in Slots :
        /\ inflight[h].kind = "postConsensus"
        /\ inflight[h].pc = "calc"
        /\ inflight' = [inflight EXCEPT ![h] = Idle]
        /\ LET r == PostConsensusOutcome(inflight[h].id, ResponsesOf(h), clock, clock)
           IN  /\ consensuses' = r.consensuses
               /\ decisions' = r.decisions
               /\ sent' = r.reply
        /\ UNCHANGED <<aiResponses, clock, known>>

Next ==
    \/ PostDecision
    \/ PatchDecision
    \/ DeleteDecision
    \/ PostResponseStart
    \/ PostResponseFinish
    \/ PostConsensusStart
    \/ PostConsensusResponses
    \/ PostConsensusCalc

Spec == Init /\ [][Next]_vars

(***************************************************************************)
(* SerialSpec: the same two routes, run from request to reply in one step. *)
(***************************************************************************)
SerialPostResponseOf(id, body) ==
    /\ IF getDecision(id) = <<>>
       THEN /\ sent' = Reply("postResponse", 404)
            /\ UNCHANGED <<decisions, aiResponses>>
       ELSE LET r == PostResponseOutcome(id, body, clock, clock)
            IN  /\ aiResponses' = r.aiResponses
                /\ decisions' = r.decisions
                /\ sent' = r.reply
    /\ UNCHANGED <<consensuses, clock, known, inflight>>

SerialPostResponse ==
    \E id \in Targets, body \in SerialBodies : SerialPostResponseOf(id, body)

SerialPostConsensusOf(id) ==
    /\ IF getDecision(id) = <<>>
       THEN /\ sent' = Reply("postConsensus", 404)
            /\ UNCHANGED <<decisions, consensuses>>
       ELSE LET r == PostConsensusOutcome(id, getAIResponses(id), clock, clock)
            IN  /\ consensuses' = r.consensuses
                /\ decisions' = r.decisions
                /\ sent' = r.reply
    /\ UNCHANGED <<aiResponses, clock, known, inflight>>

SerialPostConsensus == \E id \in Targets : SerialPostConsensusOf(id)

SerialNext ==
    \/ Tick
    \/ PostDecision
    \/ SerialPostResponse
    \/ SerialPostConsensus

SerialSpec == Init /\ [][SerialNext]_vars

(***************************************************************************)
(* CalcSpec: POST /consensus, and DELETE, on a decision that already       *)
(* holds a response of each model.  The initial states are the stores that *)
(* POST /api/decisions and three POST /responses leave behind, for every   *)
(* order of the three submissions and every vote of each.                  *)
(***************************************************************************)
\* the orders in which the three models may have submitted
SubmissionOrders ==
    {o \in [1..Len(AI_MODELS) -> Range(AI_MODELS)] :
        \A i, j \in 1..Len(AI_MODELS) : i # j => o[i] # o[j]}

\* what POST /responses stores for `body` on the new decision `d`
StoredResponse(d, body) ==
    [id |-> ResponsePool(d, body.model) * 10 + 1,
     decisionId |-> d,
     model |-> body.model,
     vote |-> body.vote,
     reasoning |-> body.reasoning,
     confidence |-> body.confidence,
     recommendations |-> body.recommendations,
     createdAt |-> 0]

CalcInit ==
    \E order \in SubmissionOrders, votes \in [Range(AI_MODELS) -> VOTES] :
        LET d == NoSuchId + 1
            responses == [i \in 1..Len(AI_MODELS) |->
                            StoredResponse(d, BodyOf(order[i], votes[order[i]]))]
        IN  /\ decisions = MapSet(EmptyMap, d,
                                  [id |-> d, title |-> "proposal",
                                   status |-> "deliberating",
                                   createdAt |-> 0, updatedAt |-> 0])
            /\ aiResponses = MapSet(EmptyMap, d, responses)
            /\ consensuses = EmptyMap
            /\ clock = 0
            /\ known = {d}
            /\ inflight = [h \in Slots |-> Idle]
            /\ sent = NoReply

CalcNext ==
    \/ SerialPostConsensus
    \/ DeleteDecision

CalcSpec == CalcInit /\ [][CalcNext]_vars

(***************************************************************************)
(* StoreSpec: direct calls of the IStorage methods, one call per step,     *)
(* with arguments the routes would not pass: any id, complete or not, and  *)
(* values insertAIResponseSchema rejects.  `sent` is what the call         *)
(* returned, in the terms of the reply the routes make of it.  One         *)
(* decision at a time.                                                     *)
(***************************************************************************)
\* the return value of a call: undefined or false (404), or a record
Returned(op, found, id) ==
    IF found THEN ReplyWith(op, 200, id) ELSE Reply(op, 404)

\* the `updates` handed to updateDecision
StoreUpdates == {[title |-> "renamed"], [status |-> "deadlock"]}

\* the responses handed to addAIResponse, short of their decisionId
StoreBodies ==
    {Body("grok", "maybe", "unsure", 50, Absent),
     Body("chatgpt", "approve", "ship it", 101, Absent)}

\* the ids handed to addAIResponse: the decision on hand or, when there is
\* none, one that was deleted
StoreTargets == IF decisions = EmptyMap THEN known ELSE DOMAIN decisions

\* the consensus handed to setConsensus
StoreConsensusData == calculateConsensus(<<>>)

CallCreateDecision ==
    /\ Cardinality(known) < MaxDecisions
    /\ decisions = EmptyMap
    /\ aiResponses = EmptyMap
    /\ LET r == createDecision([title |-> "proposal"], randomUUID(DecisionPool), clock)
       IN  /\ decisions' = r.decisions
           /\ aiResponses' = r.aiResponses
           /\ known' = known \cup {r.ret.id}
           /\ sent' = Returned("createDecision", TRUE, r.ret.id)
    /\ UNCHANGED <<consensuses, clock, inflight>>

CallUpdateDecisionOf(id, updates) ==
    /\ LET r == updateDecision(id, updates, clock)
       IN  /\ decisions' = r.decisions
           /\ sent' = Returned("updateDecision", r.ret # <<>>, id)
    /\ UNCHANGED <<aiResponses, consensuses, clock, known, inflight>>

CallUpdateDecision ==
    \E id \in Targets, updates \in StoreUpdates : CallUpdateDecisionOf(id, updates)

CallDeleteDecisionOf(id) ==
    LET r == deleteDecision(id)
    IN  /\ decisions' = r.decisions
        /\ aiResponses' = r.aiResponses
        /\ consensuses' = r.consensuses
        /\ sent' = Returned("deleteDecision", r.ret, id)
        /\ UNCHANGED <<clock, known, inflight>>

CallDeleteDecision == \E id \in Targets : CallDeleteDecisionOf(id)

CallAddAIResponseOf(id, body) ==
    /\ LET data == [decisionId |-> id,
                    model |-> body.model,
                    vote |-> body.vote,
                    reasoning |-> body.reasoning,
                    confidence |-> body.confidence,
                    recommendations |-> body.recommendations]
           r == addAIResponse(data, randomUUID(ResponsePool(id, body.model)),
                              clock, clock)
       IN  /\ aiResponses' = r.aiResponses
           /\ decisions' = r.decisions
           /\ sent' = Returned("addAIResponse", TRUE, id)
    /\ UNCHANGED <<consensuses, clock, known, inflight>>

CallAddAIResponse ==
    \E id \in StoreTargets, body \in StoreBodies : CallAddAIResponseOf(id, body)

CallSetConsensusOf(id) ==
    /\ LET r == setConsensus(id, StoreConsensusData,
                             randomUUID(ConsensusPool(id)), clock, clock)
       IN  /\ consensuses' = r.consensuses
           /\ decisions' = r.decisions
           /\ sent' = Returned("setConsensus", r.ret # <<>>, id)
    /\ UNCHANGED <<aiResponses, clock, known, inflight>>

CallSetConsensus == \E id \in Targets : CallSetConsensusOf(id)

StoreNext ==
    \/ Tick
    \/ CallCreateDecision
    \/ CallUpdateDecision
    \/ CallDeleteDecision
    \/ CallAddAIResponse
    \/ CallSetConsensus

StoreSpec == Init /\ [][StoreNext]_vars

(***************************************************************************)
(* ListSpec: direct calls of createDecision, updateDecision and            *)
(* deleteDecision on a store that holds several decisions, with the wall   *)
(* clock advancing.                                                        *)
(***************************************************************************)
ListCreateDecision ==
    /\ Cardinality(known) < MaxListed
    /\ LET r == createDecision([title |-> "proposal"], randomUUID(DecisionPool), clock)
       IN  /\ decisions' = r.decisions
           /\ aiResponses' = r.aiResponses
           /\ known' = known \cup {r.ret.id}
           /\ sent' = Returned("createDecision", TRUE, r.ret.id)
    /\ UNCHANGED <<consensuses, clock, inflight>>

ListNext ==
    \/ Tick
    \/ ListCreateDecision
    \/ CallUpdateDecision
    \/ CallDeleteDecision

ListSpec == Init /\ [][ListNext]_vars

(***************************************************************************)
(* Properties.                                                             *)
(***************************************************************************)
\* C1 (Spec): the response list a read attaches to a decision never holds
\* two responses of the same model, whatever the routes did and however
\* their handlers interleaved.
OneResponsePerModel ==
    \A id \in DOMAIN decisions :
        LET responses == getDecision(id)[1].responses
        IN  \A i, j \in 1..Len(responses) :
                responses[i].model = responses[j].model => i = j

\* a complete list one of whose responses came from a resubmission
C1Reached ==
    \E id \in DOMAIN decisions :
        /\ Len(getDecision(id)[1].responses) = Len(AI_MODELS)
        /\ \E r \in Range(getDecision(id)[1].responses) : r.id % 10 = 2

\* C2 (SerialSpec): a submission by a model that already has a response on
\* the decision leaves exactly one response of that model, with the vote,
\* reasoning and confidence of the new submission, the time of the new
\* submission, and an id other than the replaced response's.
LastWriteWins ==
    [][\A id \in Targets, body \in SerialBodies :
          (/\ sent'.op = "postResponse"
           /\ id \in DOMAIN decisions
           /\ findIndex(aiResponses[id], body.model) >= 1
           /\ SerialPostResponseOf(id, body))
          => LET r1 == aiResponses[id][findIndex(aiResponses[id], body.model)]
                 after == aiResponses'[id]
                 mine == {i \in 1..Len(after) : after[i].model = body.model}
             IN  /\ Cardinality(mine) = 1
                 /\ \A i \in mine :
                       /\ after[i].vote = body.vote
                       /\ after[i].reasoning = body.reasoning
                       /\ after[i].confidence = body.confidence
                       /\ after[i].createdAt = clock
                       /\ after[i].id # r1.id]_vars

\* a response from a resubmission made after the clock moved on
C2Reached ==
    /\ sent.op = "postResponse"
    /\ sent.status = 201
    /\ \E id \in DOMAIN decisions :
          \E r \in Range(aiResponses[id]) :
              /\ r.id % 10 = 2
              /\ r.vote = "reject"
              /\ r.createdAt > decisions[id].createdAt

\* C3 (Spec): a successful submission moves a pending decision to
\* deliberating exactly when every model has a response on file after it,
\* and leaves every other status as it was, so no submission returns a
\* decision to pending.
StatusAdvancesOnCompletion ==
    [][\A h \in Slots, body \in RequestBodies :
          LET id == inflight[h].id
          IN  (/\ sent'.op = "postResponse"
               /\ insertAIResponseSchemaOk(body)
               /\ id \in DOMAIN decisions
               /\ PostResponseFinishOf(h, body))
              => IF decisions[id].status = "pending"
                 THEN decisions'[id].status =
                          IF allResponded(aiResponses'[id])
                          THEN "deliberating" ELSE "pending"
                 ELSE decisions'[id].status = decisions[id].status]_vars

\* a resubmission was just stored on a decision that stays deliberating
C3Reached ==
    /\ sent.op = "postResponse"
    /\ sent.status = 201
    /\ sent.id \in DOMAIN decisions
    /\ decisions[sent.id].status = "deliberating"
    /\ \E r \in Range(aiResponses[sent.id]) : r.id % 10 = 2

\* C4 (CalcSpec): with n models and majority = ceil((n+1)/2), the stored
\* outcome is approved iff the approve votes reach the majority, rejected
\* iff they do not and the reject votes do, and needs_revision otherwise.
MajorityDecides ==
    \A d \in DOMAIN consensuses :
        LET n == Len(AI_MODELS)
            majority == (n + 2) \div 2
            count(v) == Cardinality({i \in 1..Len(aiResponses[d]) :
                                        aiResponses[d][i].vote = v})
            result == consensuses[d].outcome
        IN  /\ result = "approved" <=> count("approve") >= majority
            /\ result = "rejected" <=>
                   (count("approve") < majority /\ count("reject") >= majority)
            /\ result = "needs_revision" <=>
                   (count("approve") < majority /\ count("reject") < majority)

\* a three-way tie was calculated
C4Reached ==
    \E d \in DOMAIN consensuses :
        /\ consensuses[d].outcome = "needs_revision"
        /\ \A v \in VOTES : consensuses[d].voteSummary[v] = 1

\* C5 (CalcSpec): the stored unanimity flag is true iff the responses carry
\* one and the same vote value, three abstentions included.
UnanimousIffOneVoteValue ==
    \A d \in DOMAIN consensuses :
        consensuses[d].unanimity
            <=> Cardinality({r.vote : r \in Range(aiResponses[d])}) = 1

\* C6 (SerialSpec): POST /consensus on an existing decision that lacks the
\* response of some model replies 400, reports as responded exactly the
\* models with a response on file and as missing exactly the other models,
\* and changes no decision, no response list and no consensus.
IncompleteIsReportedAndWritesNothing ==
    [][\A id \in Targets :
          (/\ sent'.op = "postConsensus"
           /\ id \in DOMAIN decisions
           /\ ~allResponded(getAIResponses(id))
           /\ SerialPostConsensusOf(id))
          => /\ sent'.status = 400
             /\ Len(sent'.responded) = Cardinality(Range(sent'.responded))
             /\ Range(sent'.responded) =
                    {m \in Range(AI_MODELS) :
                        \E r \in Range(getAIResponses(id)) : r.model = m}
             /\ Len(sent'.missing) = Cardinality(Range(sent'.missing))
             /\ Range(sent'.missing) =
                    {m \in Range(AI_MODELS) :
                        \A r \in Range(getAIResponses(id)) : r.model # m}
             /\ UNCHANGED <<decisions, aiResponses, consensuses>>]_vars

\* the 400 was sent for a decision with two responses, written to earlier
C6Reached ==
    /\ sent.op = "postConsensus"
    /\ sent.status = 400
    /\ Len(sent.responded) = 2
    /\ Len(sent.missing) = 1
    /\ \E id \in DOMAIN decisions : decisions[id].updatedAt < clock

\* C7 (Spec): once a decision is deleted, no read finds anything under its
\* id: no decision, no response list and no consensus.
DeletedLeavesNothing ==
    \A id \in known \ DOMAIN decisions :
        /\ getDecision(id) = <<>>
        /\ getAIResponses(id) = <<>>
        /\ getConsensus(id) = <<>>

\* C8 (Spec): every response on file belongs to a decision that exists.
ResponsesReferenceDecisions ==
    \A d \in DOMAIN aiResponses :
        \A r \in Range(aiResponses[d]) : r.decisionId \in DOMAIN decisions

\* C9 (Spec): a submission that reaches the store when its decision does
\* not exist is answered 404 and stores nothing.
SubmitToMissingWritesNothing ==
    [][\A h \in Slots, body \in RequestBodies :
          (/\ inflight[h].kind = "postResponse"
           /\ insertAIResponseSchemaOk(body)
           /\ inflight[h].id \notin DOMAIN decisions
           /\ PostResponseFinishOf(h, body))
          => /\ sent'.status = 404
             /\ UNCHANGED <<decisions, aiResponses>>]_vars

\* C10 (Spec): the three counts of every stored consensus add up to the
\* number of models, which is the number of responses on file.
TallySumsToVoters ==
    \A d \in DOMAIN consensuses :
        LET tally == consensuses[d].voteSummary
            sum == tally.approve + tally.reject + tally.abstain
        IN  /\ sum = Len(AI_MODELS)
            /\ sum = Len(getAIResponses(d))

\* a two-to-one consensus is stored
C10Reached ==
    \E d \in DOMAIN consensuses :
        /\ consensuses[d].voteSummary.approve = 2
        /\ consensuses[d].voteSummary.reject = 1

ActionItemsAreFirstOccurrences ==
    \A d \in DOMAIN consensuses :
        LET responses == aiResponses[d]
            list(i) == IF responses[i].recommendations.present
                       THEN responses[i].recommendations.items
                       ELSE <<>>
            longest == CHOOSE n \in 0..Len(allActionItems(responses)) :
                           \A i \in 1..Len(responses) : Len(list(i)) <= n
            places == {p \in (1..Len(responses)) \X (1..longest) :
                          p[2] <= Len(list(p[1]))}
            at(p) == list(p[1])[p[2]]
            before(p, q) == p[1] < q[1] \/ (p[1] = q[1] /\ p[2] < q[2])
            first(x) == CHOOSE p \in places :
                            /\ at(p) = x
                            /\ \A q \in places : at(q) = x => (q = p \/ before(p, q))
            field == consensuses[d].actionItems
            out == field.items
        IN  /\ field.present <=> places # {}
            /\ Range(out) = {at(p) : p \in places}
            /\ \A a, b \in 1..Len(out) : a < b => before(first(out[a]), first(out[b]))

\* a recommendation made twice is listed once, ahead of a later one
C13Reached ==
    \E d \in DOMAIN consensuses :
        /\ aiResponses[d][1].vote = "reject"
        /\ aiResponses[d][2].vote = "abstain"
        /\ aiResponses[d][3].vote = "approve"
        /\ consensuses[d].actionItems = Present(<<"add docs", "add tests">>)

\* C14 (Spec): a step of any route but DELETE keeps every response list
\* with every model it holds a response of, and keeps every consensus.
NothingRemovedButByDelete ==
    [][sent'.op # "deleteDecision"
       => /\ \A d \in DOMAIN aiResponses :
                /\ d \in DOMAIN aiResponses'
                /\ Range(ModelsOf(aiResponses[d])) \subseteq Range(ModelsOf(aiResponses'[d]))
          /\ \A d \in DOMAIN consensuses : d \in DOMAIN consensuses']_vars

\* a decision with its three responses and its consensus was just updated
C14Reached ==
    /\ sent.op = "patchDecision"
    /\ sent.status = 200
    /\ sent.id \in DOMAIN consensuses
    /\ Len(aiResponses[sent.id]) = Len(AI_MODELS)

\* C16 (Spec): a step of any route but PATCH leaves no decision with the
\* status deadlock that did not have it before the step.
DeadlockOnlyByUpdate ==
    [][sent'.op # "patchDecision"
       => \A d \in DOMAIN decisions' :
              decisions'[d].status = "deadlock"
                  => (d \in DOMAIN decisions /\ decisions[d].status = "deadlock")]_vars

\* the submission that completed the list of a deadlocked decision
C16Reached ==
    /\ sent.op = "postResponse"
    /\ sent.status = 201
    /\ sent.id \in DOMAIN decisions
    /\ decisions[sent.id].status = "deadlock"
    /\ Len(aiResponses[sent.id]) = Len(AI_MODELS)

\* C12 (StoreSpec): setConsensus on an existing decision leaves it with a
\* consensus made by this call (the time of the call, an id other than the
\* replaced one's) and with the status consensus_reached, whatever the
\* status and the responses on file were; on an id with no decision it
\* returns undefined and stores nothing.
SetConsensusOverwrites ==
    [][\A id \in Targets :
          (sent'.op = "setConsensus" /\ CallSetConsensusOf(id))
          => IF id \in DOMAIN decisions
             THEN /\ sent'.status = 200
                  /\ DOMAIN consensuses' = DOMAIN consensuses \cup {id}
                  /\ consensuses'[id].decisionId = id
                  /\ consensuses'[id].createdAt = clock
                  /\ consensuses'[id].outcome = StoreConsensusData.outcome
                  /\ id \in DOMAIN consensuses
                        => consensuses'[id].id # consensuses[id].id
                  /\ decisions'[id].status = "consensus_reached"
             ELSE /\ sent'.status = 404
                  /\ UNCHANGED <<decisions, aiResponses, consensuses>>]_vars

\* the consensus of a decision with a single response was replaced at a
\* later time
C12Reached ==
    /\ sent.op = "setConsensus"
    /\ sent.status = 200
    /\ consensuses[sent.id].id % 10 = 2
    /\ consensuses[sent.id].createdAt > decisions[sent.id].createdAt
    /\ Len(aiResponses[sent.id]) = 1

\* C15 (StoreSpec): updateDecision on an existing decision sets the fields
\* of `updates` and updatedAt and leaves every other field, the status when
\* it is not among them, every response list and every consensus as it
\* was; on an id with no decision it returns undefined and changes nothing.
UpdateTouchesSuppliedFieldsOnly ==
    [][\A id \in Targets, updates \in StoreUpdates :
          (sent'.op = "updateDecision" /\ CallUpdateDecisionOf(id, updates))
          => IF id \in DOMAIN decisions
             THEN /\ sent'.status = 200
                  /\ DOMAIN decisions' = DOMAIN decisions
                  /\ \A f \in DOMAIN decisions[id] \ {"updatedAt"} :
                        decisions'[id][f] =
                            IF f \in DOMAIN updates THEN updates[f]
                            ELSE decisions[id][f]
                  /\ DOMAIN decisions'[id] = DOMAIN decisions[id]
                  /\ decisions'[id].updatedAt = clock
                  /\ UNCHANGED <<aiResponses, consensuses>>
             ELSE /\ sent'.status = 404
                  /\ UNCHANGED <<decisions, aiResponses, consensuses>>]_vars

\* a decision with a response and a consensus was renamed at a later time
C15Reached ==
    /\ sent.op = "updateDecision"
    /\ sent.status = 200
    /\ decisions[sent.id].title = "renamed"
    /\ decisions[sent.id].status = "consensus_reached"
    /\ decisions[sent.id].updatedAt > decisions[sent.id].createdAt
    /\ aiResponses[sent.id] # <<>>

\* C17 (StoreSpec): the store holds no response with a confidence outside
\* 0..100 or a vote outside approve, reject, abstain.
StoredResponsesAreValid ==
    \A d \in DOMAIN aiResponses :
        \A r \in Range(aiResponses[d]) :
            r.confidence \in 0..100 /\ r.vote \in VOTES

\* C18 (ListSpec): createDecision adds one decision, under an id no
\* decision was ever created under, with status pending, an empty response
\* list, no consensus and createdAt = updatedAt = the time of the call, and
\* leaves every other decision, response list and consensus as it was.
CreateAddsOnePendingDecision ==
    [][(sent'.op = "createDecision" /\ ListCreateDecision)
       => \E id \in DOMAIN decisions' \ known :
              /\ DOMAIN decisions' = DOMAIN decisions \cup {id}
              /\ decisions'[id].id = id
              /\ decisions'[id].status = "pending"
              /\ decisions'[id].createdAt = clock
              /\ decisions'[id].updatedAt = decisions'[id].createdAt
              /\ aiResponses'[id] = <<>>
              /\ id \notin DOMAIN consensuses'
              /\ \A d \in DOMAIN decisions : decisions'[d] = decisions[d]
              /\ \A d \in DOMAIN aiResponses : aiResponses'[d] = aiResponses[d]
              /\ consensuses' = consensuses]_vars

\* a decision was just created, later than one that was updated since
C18Reached ==
    /\ sent.op = "createDecision"
    /\ \E d \in DOMAIN decisions :
          /\ d # sent.id
          /\ decisions[d].title = "renamed"
          /\ decisions[d].createdAt < decisions[sent.id].createdAt

ListIsNewestFirstAndStable ==
    LET list == getAllDecisions
    IN  /\ Len(list) = Cardinality(DOMAIN decisions)
        /\ {list[i].decision.id : i \in 1..Len(list)} = DOMAIN decisions
        /\ \A i \in 1..Len(list) : list[i].decision = decisions[list[i].decision.id]
        /\ \A i, j \in 1..Len(list) :
              i < j => \/ list[i].decision.createdAt > list[j].decision.createdAt
                       \/ /\ list[i].decision.createdAt = list[j].decision.createdAt
                          /\ list[i].decision.id < list[j].decision.id

\* the list holds a decision ahead of an older one
C20Reached ==
    /\ Len(getAllDecisions) = 2
    /\ getAllDecisions[1].decision.createdAt > getAllDecisions[2].decision.createdAt
    /\ getAllDecisions[1].decision.id > getAllDecisions[2].decision.id

\* C22 (Spec): a submission by a model with a response on the decision
\* puts the new response at the place of the old one and leaves every other
\* response as it was; a submission by a model without one appends the
\* response and leaves the others as they were.
ResubmissionKeepsItsPlace ==
    [][\A h \in Slots, body \in RequestBodies :
          LET id == inflight[h].id
              old == getAIResponses(id)
              new == aiResponses'[id]
              k == findIndex(old, body.model)
          IN  (/\ sent'.op = "postResponse"
               /\ insertAIResponseSchemaOk(body)
               /\ id \in DOMAIN decisions
               /\ PostResponseFinishOf(h, body))
              => /\ Len(new) = IF k >= 1 THEN Len(old) ELSE Len(old) + 1
                 /\ new[IF k >= 1 THEN k ELSE Len(new)].model = body.model
                 /\ new[IF k >= 1 THEN k ELSE Len(new)].vote = body.vote
                 /\ \A i \in 1..Len(old) : i # k => new[i] = old[i]]_vars

\* the model that responded first resubmitted once the list was complete
C22Reached ==
    /\ sent.op = "postResponse"
    /\ sent.status = 201
    /\ sent.id \in DOMAIN decisions
    /\ Len(aiResponses[sent.id]) = Len(AI_MODELS)
    /\ aiResponses[sent.id][1].id % 10 = 2
    /\ \A i \in 2..Len(AI_MODELS) : aiResponses[sent.id][i].id % 10 = 1

\* C23 (SerialSpec): a submission changes the decision only when its status
\* is pending and every model has a response after it: then the status
\* becomes deliberating and updatedAt the time of the submission; any other
\* submission leaves the status, updatedAt and every other field as they
\* were.
SubmissionTouchesDecisionOnCompletionOnly ==
    [][\A id \in Targets, body \in SerialBodies :
          (/\ sent'.op = "postResponse"
           /\ id \in DOMAIN decisions
           /\ SerialPostResponseOf(id, body))
          => IF /\ decisions[id].status = "pending"
                /\ \A m \in Range(AI_MODELS) :
                      \E r \in Range(aiResponses'[id]) : r.model = m
             THEN decisions'[id] = [decisions[id] EXCEPT !.status = "deliberating",
                                                         !.updatedAt = clock]
             ELSE decisions'[id] = decisions[id]]_vars

\* a resubmission, later than the consensus, on a decision that has one
C23Reached ==
    /\ sent.op = "postResponse"
    /\ sent.status = 201
    /\ decisions[sent.id].status = "consensus_reached"
    /\ \E r \in Range(aiResponses[sent.id]) :
          r.createdAt > decisions[sent.id].updatedAt

\* C24 (CalcSpec): the synthesized reasoning is one paragraph per response,
\* in the order of the response list, each made of the display name of the
\* model, the vote, the confidence and the reasoning as submitted, with a
\* blank line between two paragraphs.
ReasoningIsOneParagraphPerResponse ==
    \A d \in DOMAIN consensuses :
        LET responses == aiResponses[d]
            text == consensuses[d].synthesizedReasoning
            n == Len(responses)
            paragraph(r) == <<AI_MODEL_ROLES[r.model], " (", r.vote, ", ",
                              ToString(r.confidence), "% confidence): ", r.reasoning>>
        IN  /\ Len(text) = 8 * n - 1
            /\ \A i \in 1..n :
                  SubSeq(text, 8 * i - 7, 8 * i - 1) = paragraph(responses[i])
            /\ \A i \in 1..(n - 1) : text[8 * i] = "\n\n"

\* the narrative of claude, grok and chatgpt, in that order, is stored
C24Reached ==
    \E d \in DOMAIN consensuses :
        /\ ModelsOf(aiResponses[d]) = <<"claude", "grok", "chatgpt">>
        /\ consensuses[d].synthesizedReasoning[1] = "Claude"
        /\ aiResponses[d][1].vote = "abstain"

FlowNext ==
    \/ PostDecision
    \/ DeleteDecision
    \/ PostResponseStart
    \/ PostResponseFinish
    \/ PostConsensusStart
    \/ PostConsensusResponses
    \/ PostConsensusCalc

FlowSpec == Init /\ [][FlowNext]_vars

\* C28 (FlowSpec): without PATCH, a decision has a consensus record exactly
\* when its status is consensus_reached.
ConsensusRecordIffConsensusReached ==
    \A d \in DOMAIN decisions :
        d \in DOMAIN consensuses <=> decisions[d].status = "consensus_reached"

\* a model resubmitted on a decision that has its consensus
C28Reached ==
    /\ sent.op = "postResponse"
    /\ sent.status = 201
    /\ sent.id \in DOMAIN consensuses
    /\ decisions[sent.id].status = "consensus_reached"

\* C29 (FlowSpec): without PATCH, a pending decision lacks the response of
\* at least one model of AI_MODELS, and a deliberating decision has a
\* response of every one of them.
StatusTellsWhoResponded ==
    \A d \in DOMAIN decisions :
        LET responded == {r.model : r \in Range(getAIResponses(d))}
        IN  /\ decisions[d].status = "pending" => Range(AI_MODELS) \ responded # {}
            /\ decisions[d].status = "deliberating" => Range(AI_MODELS) \subseteq responded

\* the third model responded and the decision went from pending to deliberating
C29Reached ==
    /\ sent.op = "postResponse"
    /\ sent.status = 201
    /\ sent.id \in DOMAIN decisions
    /\ decisions[sent.id].status = "deliberating"
    /\ \A i \in 1..Len(aiResponses[sent.id]) : aiResponses[sent.id][i].id % 10 = 1

\* C30 (FlowSpec): without PATCH, a step that leaves a decision with the
\* status consensus_reached found it with deliberating or consensus_reached:
\* never pending, and never a decision that was not there.
ConsensusReachedFromDeliberatingOnly ==
    [][\A d \in DOMAIN decisions' :
          decisions'[d].status = "consensus_reached"
          => /\ d \in DOMAIN decisions
             /\ decisions[d].status \in {"deliberating", "consensus_reached"}]_vars

\* POST consensus stored the first consensus of a decision
C30Reached ==
    /\ sent.op = "postConsensus"
    /\ sent.status = 201
    /\ sent.id \in DOMAIN decisions
    /\ decisions[sent.id].status = "consensus_reached"
    /\ consensuses[sent.id].id % 10 = 1

(***************************************************************************)
(* PairSpec: direct calls of updateDecision, deleteDecision, addAIResponse *)
(* and setConsensus on a store that holds two decisions, each call         *)
(* addressed to one id.                                                    *)
(***************************************************************************)
\* the store after two calls of createDecision
PairInit ==
    LET a == NoSuchId + 1
        b == NoSuchId + 2
        created(id) == [id |-> id, title |-> "proposal", status |-> "pending",
                        createdAt |-> 0, updatedAt |-> 0]
    IN  /\ decisions = MapSet(MapSet(EmptyMap, a, created(a)), b, created(b))
        /\ aiResponses = MapSet(MapSet(EmptyMap, a, <<>>), b, <<>>)
        /\ consensuses = EmptyMap
        /\ clock = 0
        /\ known = {a, b}
        /\ inflight = [h \in Slots |-> Idle]
        /\ sent = NoReply

\* the response handed to addAIResponse, short of its decisionId
PairBodies == {BodyOf("grok", "approve")}

\* addAIResponse is handed the id of a decision that is or was stored
PairAddAIResponse ==
    \E id \in known, body \in PairBodies : CallAddAIResponseOf(id, body)

PairNext ==
    \/ CallUpdateDecision
    \/ CallDeleteDecision
    \/ PairAddAIResponse
    \/ CallSetConsensus

PairSpec == PairInit /\ [][PairNext]_vars

\* C21 (PairSpec): a call of updateDecision, deleteDecision, addAIResponse
\* or setConsensus addressed to one id leaves, for every other id, the
\* stored decision, its response list and its consensus as they were.
DecisionsAreIndependent ==
    [][\A id \in Targets, other \in known :
          (/\ other # id
           /\ \/ CallDeleteDecisionOf(id)
              \/ CallSetConsensusOf(id)
              \/ \E updates \in StoreUpdates : CallUpdateDecisionOf(id, updates)
              \/ \E body \in PairBodies : CallAddAIResponseOf(id, body))
          => /\ other \in DOMAIN decisions' <=> other \in DOMAIN decisions
             /\ other \in DOMAIN decisions => decisions'[other] = decisions[other]
             /\ other \in DOMAIN aiResponses' <=> other \in DOMAIN aiResponses
             /\ other \in DOMAIN aiResponses => aiResponses'[other] = aiResponses[other]
             /\ other \in DOMAIN consensuses' <=> other \in DOMAIN consensuses
             /\ other \in DOMAIN consensuses => consensuses'[other] = consensuses[other]]_vars

\* one decision was deleted next to one that has responses and a consensus
C21Reached ==
    /\ sent.op = "deleteDecision"
    /\ sent.status = 200
    /\ sent.id \notin DOMAIN decisions
    /\ \E other \in DOMAIN consensuses :
          /\ other # sent.id
          /\ Len(aiResponses[other]) = 1
          /\ decisions[other].title = "renamed"
          /\ decisions[other].status = "consensus_reached"

(***************************************************************************)
(* ReadSpec: the handlers of GET /api/decisions/:id and                    *)
(* GET /api/decisions/:id/responses, interleaved at their awaits with      *)
(* POST /api/decisions, POST .../responses and DELETE.                     *)
(***************************************************************************)
\* GET /api/decisions/:id up to `await storage.getDecision`: the value
\* returned holds the array of the store
GetDecisionRead ==
    \E h \in Slots, id \in Targets :
        /\ FreeSlot(h)
        /\ IF getDecision(id) = <<>>
           THEN /\ sent' = Reply("getDecision", 404)
                /\ UNCHANGED inflight
           ELSE /\ inflight' = [inflight EXCEPT ![h] =
                                   [Idle EXCEPT !.kind = "getDecision",
                                                !.pc = "reply", !.id = id,
                                                !.live = id \in DOMAIN aiResponses]]
                /\ sent' = NoReply
        /\ UNCHANGED <<decisions, aiResponses, consensuses, clock, known>>

\* ... from there to res.json(decision)
GetDecisionReply ==
    \E h \in Slots :
        /\ inflight[h].kind = "getDecision"
        /\ inflight[h].pc = "reply"
        /\ inflight' = [inflight EXCEPT ![h] = Idle]
        /\ sent' = ReplyWith("getDecision", 200, inflight[h].id)
        /\ UNCHANGED <<decisions, aiResponses, consensuses, clock, known>>

\* GET /api/decisions/:id/responses up to `await storage.getDecision`
GetResponsesStart ==
    \E h \in Slots, id \in Targets :
        /\ FreeSlot(h)
        /\ IF getDecision(id) = <<>>
           THEN /\ sent' = Reply("getResponses", 404)
                /\ UNCHANGED inflight
           ELSE /\ inflight' = [inflight EXCEPT ![h] =
                                   [Idle EXCEPT !.kind = "getResponses",
                                                !.pc = "responses", !.id = id]]
                /\ sent' = NoReply
        /\ UNCHANGED <<decisions, aiResponses, consensuses, clock, known>>

\* ... from there to `await storage.getAIResponses`
GetResponsesRead ==
    \E h \in Slots :
        /\ inflight[h].kind = "getResponses"
        /\ inflight[h].pc = "responses"
        /\ inflight' = [inflight EXCEPT ![h] =
                           [@ EXCEPT !.pc = "reply",
                                     !.live = inflight[h].id \in DOMAIN aiResponses,
                                     !.val = <<>>]]
        /\ sent' = NoReply
        /\ UNCHANGED <<decisions, aiResponses, consensuses, clock, known>>

\* ... from there to res.json(responses)
GetResponsesReply ==
    \E h \in Slots :
        /\ inflight[h].kind = "getResponses"
        /\ inflight[h].pc = "reply"
        /\ inflight' = [inflight EXCEPT ![h] = Idle]
        /\ sent' = Reply("getResponses", 200)
        /\ UNCHANGED <<decisions, aiResponses, consensuses, clock, known>>

ReadNext ==
    \/ PostDecision
    \/ DeleteDecision
    \/ SerialPostResponse
    \/ GetDecisionRead
    \/ GetDecisionReply
    \/ GetResponsesStart
    \/ GetResponsesRead
    \/ GetResponsesReply

ReadSpec == Init /\ [][ReadNext]_vars

\* C25 (ReadSpec): the response list of a decision that getDecision
\* returned stays as it was returned for as long as the caller holds it,
\* whatever is submitted meanwhile.
ReadsAreSnapshots ==
    [][\A h \in Slots :
          (/\ inflight[h].kind = "getDecision"
           /\ inflight[h].pc = "reply"
           /\ inflight'[h].pc = "reply")
          => ResponsesOf(h)' = ResponsesOf(h)]_vars

\* C27 (ReadSpec): GET /api/decisions/:id/responses answers 404 when no
\* decision is stored under the id at the time of the reply.
AbsentDecisionIsNotFound ==
    [][\A h \in Slots :
          (/\ inflight[h].kind = "getResponses"
           /\ inflight'[h] = Idle
           /\ inflight[h].id \notin DOMAIN decisions)
          => sent'.status = 404]_vars

\* C32 (CalcSpec): a consensus with unanimity = true has the outcome
\* approved or rejected, and one with the outcome approved and unanimity =
\* true has no reject and no abstain in its tally.
UnanimousIsApprovedOrRejected ==
    \A d \in DOMAIN consensuses :
        LET c == consensuses[d]
        IN  /\ c.unanimity => c.outcome \in {"approved", "rejected"}
            /\ (c.outcome = "approved" /\ c.unanimity)
                  => c.voteSummary.reject = 0 /\ c.voteSummary.abstain = 0

\* a unanimous approval is stored
C32Reached ==
    \E d \in DOMAIN consensuses :
        /\ consensuses[d].unanimity
        /\ consensuses[d].outcome = "approved"
        /\ \A r \in Range(aiResponses[d]) : r.vote = "approve"

\* C33 (CalcSpec): the outcome, the unanimity and the tally of a stored
\* consensus are those the calculation yields for the same responses in any
\* other order of submission.
ConsensusIgnoresSubmissionOrder ==
    \A d \in DOMAIN consensuses :
        \A order \in SubmissionOrders :
            LET responses == aiResponses[d]
                permuted == [i \in 1..Len(AI_MODELS) |->
                                responses[findIndex(responses, order[i])]]
                c == calculateConsensus(permuted)
            IN  /\ c.outcome = consensuses[d].outcome
                /\ c.unanimity = consensuses[d].unanimity
                /\ c.voteSummary = consensuses[d].voteSummary

\* a consensus over three different votes, the reject submitted last
C33Reached ==
    \E d \in DOMAIN consensuses :
        /\ aiResponses[d][1].vote = "abstain"
        /\ aiResponses[d][2].vote = "approve"
        /\ aiResponses[d][3].vote = "reject"
        /\ consensuses[d].outcome = "needs_revision"

\* C34 (CalcSpec): a consensus calculation that follows a calculation for
\* the same decision at once stores a record with the same outcome,
\* unanimity, tally, synthesized reasoning and action items under another
\* id, and leaves the status consensus_reached.
RecalculationRepeatsTheResult ==
    [][\A id \in Targets :
          (/\ sent.op = "postConsensus"
           /\ sent.status = 201
           /\ sent.id = id
           /\ id \in DOMAIN consensuses
           /\ SerialPostConsensusOf(id))
          => /\ id \in DOMAIN consensuses'
             /\ consensuses'[id].id # consensuses[id].id
             /\ consensuses'[id] = [consensuses[id] EXCEPT
                                       !.id = consensuses'[id].id,
                                       !.createdAt = consensuses'[id].createdAt]
             /\ decisions[id].status = "consensus_reached"
             /\ decisions'[id].status = "consensus_reached"]_vars

\* the consensus was calculated twice in a row, with action items to merge
C34Reached ==
    /\ sent.op = "postConsensus"
    /\ sent.status = 201
    /\ sent.id \in DOMAIN consensuses
    /\ consensuses[sent.id].id % 10 = 2
    /\ consensuses[sent.id].actionItems.present
    /\ Len(consensuses[sent.id].actionItems.items) = 2

(***************************************************************************)
(* RevoteSpec: POST /api/decisions, POST .../responses, POST .../consensus *)
(* and DELETE, one request at a time, with grok voting either way.         *)
(***************************************************************************)
RevoteNext ==
    \/ PostDecision
    \/ DeleteDecision
    \/ SerialPostResponse
    \/ SerialPostConsensus

RevoteSpec == Init /\ [][RevoteNext]_vars

\* C31 (RevoteSpec): a submission to a decision that has a consensus leaves
\* the consensus record, with its id, outcome, unanimity and tally, as it
\* was, and leaves the status consensus_reached.
SubmissionKeepsConsensus ==
    [][\A id \in Targets, body \in SerialBodies :
          (/\ sent'.op = "postResponse"
           /\ id \in DOMAIN consensuses
           /\ SerialPostResponseOf(id, body))
          => /\ id \in DOMAIN consensuses'
             /\ consensuses'[id] = consensuses[id]
             /\ decisions[id].status = "consensus_reached"
             /\ decisions'[id].status = "consensus_reached"]_vars

\* grok changed its vote after the consensus: the stored tally is no longer
\* the tally of the responses
C31Reached ==
    /\ sent.op = "postResponse"
    /\ sent.status = 201
    /\ sent.id \in DOMAIN consensuses
    /\ decisions[sent.id].status = "consensus_reached"
    /\ voteSummary(aiResponses[sent.id]) # consensuses[sent.id].voteSummary

\* C35 (Spec): the steps of a POST /consensus handler whose decision was
\* deleted after its existence check write nothing: no consensus appears
\* under the id, the decision does not come back, and the three maps are
\* what they were before the step.
ConsensusOfDeletedWritesNothing ==
    [][\A h \in Slots :
          (/\ inflight[h].kind = "postConsensus"
           /\ inflight[h].id \notin DOMAIN decisions
           /\ inflight'[h].pc # inflight[h].pc)
          => /\ UNCHANGED <<decisions, aiResponses, consensuses>>
             /\ inflight[h].id \notin DOMAIN decisions'
             /\ inflight[h].id \notin DOMAIN consensuses']_vars

\* the handler held a complete list, the decision was deleted, and the
\* handler went through setConsensus
C35Reached ==
    /\ sent.op = "postConsensus"
    /\ sent.status = 201
    /\ sent.id = NoSuchId
    /\ known # {}
    /\ decisions = EmptyMap
    /\ consensuses = EmptyMap

\* C36 (Spec): with every submission going through POST /responses, a
\* response list never holds more responses than there are models in
\* AI_MODELS, and holds that many exactly when every model has responded.
ListIsNoLongerThanTheModels ==
    \A d \in DOMAIN aiResponses :
        /\ Len(aiResponses[d]) <= Len(AI_MODELS)
        /\ Len(aiResponses[d]) = Len(AI_MODELS) <=> allResponded(aiResponses[d])

\* the list is complete, two of its responses being resubmissions, and an
\* invalid body was just refused
C36Reached ==
    \E d \in DOMAIN aiResponses :
        /\ Len(aiResponses[d]) = Len(AI_MODELS)
        /\ Cardinality({i \in 1..Len(aiResponses[d]) :
                            aiResponses[d][i].id % 10 = 2}) = 2
        /\ sent.op = "postResponse"
        /\ sent.status = 400

(***************************************************************************)
(* StatsSpec: GET /api/stats over a store of two decisions, next to        *)
(* PATCH, DELETE and POST .../consensus, one request at a time.            *)
(***************************************************************************)
\* the votes of the three models on a decision of the initial store
StatsBallots ==
    {[m \in Range(AI_MODELS) |-> "approve"],
     [m \in Range(AI_MODELS) |-> "reject"],
     [m \in Range(AI_MODELS) |-> IF m = "claude" THEN "reject" ELSE "approve"],
     [m \in Range(AI_MODELS) |->
         IF m = "claude" THEN "abstain" ELSE IF m = "grok" THEN "approve" ELSE "reject"]}

\* the store after two calls of createDecision and, for each decision,
\* either no submission or one submission by every model
StatsInit ==
    \E voted \in SUBSET {NoSuchId + 1, NoSuchId + 2} :
        \E ballots \in [voted -> StatsBallots] :
            LET ids == {NoSuchId + 1, NoSuchId + 2}
                created(id) == [id |-> id, title |-> "proposal",
                                status |-> IF id \in voted THEN "deliberating"
                                                            ELSE "pending",
                                createdAt |-> 0, updatedAt |-> 0]
                submitted(id) ==
                    IF id \in voted
                    THEN [i \in 1..Len(AI_MODELS) |->
                            StoredResponse(id, BodyOf(AI_MODELS[i], ballots[id][AI_MODELS[i]]))]
                    ELSE <<>>
            IN  /\ decisions = [id \in ids |-> created(id)]
                /\ aiResponses = [id \in ids |-> submitted(id)]
                /\ consensuses = EmptyMap
                /\ clock = 0
                /\ known = ids
                /\ inflight = [h \in Slots |-> Idle]
                /\ sent = NoReply

\* stats that leave the deadlocked decisions out
statsWithoutDeadlock ==
    LET list == getAllDecisions
        byStatus(status) ==
            Cardinality({i \in 1..Len(list) : list[i].decision.status = status})
        decided == {i \in 1..Len(list) : list[i].consensus # <<>>}
        byOutcome(o) ==
            Cardinality({i \in decided : list[i].consensus[1].outcome = o})
    IN  [totalDecisions |-> Len(list),
         byStatus |-> [pending |-> byStatus("pending"),
                       deliberating |-> byStatus("deliberating"),
                       consensus_reached |-> byStatus("consensus_reached"),
                       deadlock |-> 0],
         consensusOutcomes |-> [approved |-> byOutcome("approved"),
                                rejected |-> byOutcome("rejected"),
                                needs_revision |-> byOutcome("needs_revision")],
         unanimousDecisions |->
             Cardinality({i \in decided : list[i].consensus[1].unanimity})]

\* the `stats` object of GET /api/stats, short of byCategory and byPriority
stats ==
    LET list == getAllDecisions
        byStatus(status) ==
            Cardinality({i \in 1..Len(list) : list[i].decision.status = status})
        decided == {i \in 1..Len(list) : list[i].consensus # <<>>}
        byOutcome(o) ==
            Cardinality({i \in decided : list[i].consensus[1].outcome = o})
    IN  [totalDecisions |-> Len(list),
         byStatus |-> [pending |-> byStatus("pending"),
                       deliberating |-> byStatus("deliberating"),
                       consensus_reached |-> byStatus("consensus_reached"),
                       deadlock |-> byStatus("deadlock")],
         consensusOutcomes |-> [approved |-> byOutcome("approved"),
                                rejected |-> byOutcome("rejected"),
                                needs_revision |-> byOutcome("needs_revision")],
         unanimousDecisions |->
             Cardinality({i \in decided : list[i].consensus[1].unanimity})]

\* GET /api/stats
GetStats ==
    /\ sent' = Reply("getStats", 200)
    /\ UNCHANGED <<decisions, aiResponses, consensuses, clock, known, inflight>>

StatsNext ==
    \/ GetStats
    \/ PatchDecision
    \/ DeleteDecision
    \/ SerialPostConsensus

StatsSpec == StatsInit /\ [][StatsNext]_vars

\* C37 (StatsSpec): in the statistics of GET /api/stats the four byStatus
\* counts add up to totalDecisions, the three consensusOutcomes counts add
\* up to the number of decisions that have a consensus, and
\* unanimousDecisions is at most that number.
StatsAddUp ==
    LET decided == Cardinality(DOMAIN decisions \cap DOMAIN consensuses)
    IN  /\ stats.totalDecisions = Cardinality(DOMAIN decisions)
        /\ stats.byStatus.pending + stats.byStatus.deliberating
             + stats.byStatus.consensus_reached + stats.byStatus.deadlock
             = stats.totalDecisions
        /\ stats.consensusOutcomes.approved + stats.consensusOutcomes.rejected
             + stats.consensusOutcomes.needs_revision = decided
        /\ stats.unanimousDecisions <= decided

\* the statistics of a pending decision next to a deadlocked one that has
\* a unanimous consensus
C37Reached ==
    /\ sent.op = "getStats"
    /\ stats.totalDecisions = 2
    /\ stats.byStatus.pending = 1
    /\ stats.byStatus.deadlock = 1
    /\ stats.unanimousDecisions = 1

====
